---- MODULE Spec2Model ----
(***************************************************************************)
(* Model of excel_mcp's process_excel_from_url orchestration               *)
(* (src/src/excel_mcp/server.py) and of the file transfer client           *)
(* (src/src/excel_mcp/workbook.py).                                        *)
(*                                                                         *)
(* Text (str) is a sequence of tokens; the token "/" is the path           *)
(* separator, so that split, basename, join and isabs are computed on the  *)
(* text as the code computes them.  An f-string is the concatenation of    *)
(* its parts.                                                              *)
(***************************************************************************)
EXTENDS Integers, Sequences, FiniteSets, TLC

\* Number of requests the hosting runtime may have in flight together.
NumRequests == 2

Requests == 1..NumRequests

VARIABLES
    EXCEL_FILES_PATH,   \* the configured working directory (module global)
    req,                \* req[r]: the arguments of request r
    pc,                 \* pc[r]: the step request r is about to take
    frame,              \* frame[r]: the local variables of request r's call
    fs,                 \* the file system: resolved path -> file content
    ret,                \* ret[r]: the string returned to the caller
    error,              \* error[r]: the exception raised to the caller
    hist                \* hist[r]: what request r has done so far

vars == <<EXCEL_FILES_PATH, req, pc, frame, fs, ret, error, hist>>

SEP == "/"
Q == "\""

----------------------------------------------------------------------------
(* Text helpers (Python str methods).                                      *)

\* s[i:] of a str
Suffix(s, i) == SubSeq(s, i, Len(s))

\* index of the last SEP of s, 0 when there is none (str.rfind + 1)
LastSepIndex(s) ==
    LET idx == {i \in 1..Len(s) : s[i] = SEP}
    IN  IF idx = {} THEN 0 ELSE CHOOSE i \in idx : \A j \in idx : j <= i

\* sub in s  (substring test on token text)
Contains(s, sub) ==
    \E i \in 0..(Len(s) - Len(sub)) : SubSeq(s, i + 1, i + Len(sub)) = sub

\* s.startswith(pre)
StartsWith(s, pre) == Len(pre) <= Len(s) /\ SubSeq(s, 1, Len(pre)) = pre

\* url.split('/')[-1]
SplitLast(url) == Suffix(url, LastSepIndex(url) + 1)

\* variant: the path is taken whole, directories included
BasenameWhole(p) == p

\* os.path.basename (posixpath): the text after the last "/"
Basename(p) == Suffix(p, LastSepIndex(p) + 1)

\* os.path.isabs (posixpath): starts with "/"
IsAbs(p) == Len(p) > 0 /\ p[1] = SEP

\* os.path.join(a, b) (posixpath)
PathJoin(a, b) ==
    IF IsAbs(b) THEN b
    ELSE IF a = << >> \/ a[Len(a)] = SEP THEN a \o b
    ELSE a \o <<SEP>> \o b

----------------------------------------------------------------------------
(* The file system: which file a path text names.  A path is looked up     *)
(* component by component from "/" (absolute) or from the process's        *)
(* working directory (relative); empty and "." components name the         *)
(* directory itself.                                                       *)

\* the process's current directory, as components
CWD == << <<"srv">>, <<"app">> >>

RECURSIVE SplitSep(_)
SplitSep(s) ==
    IF LastSepIndex(s) = 0 THEN <<s>>
    ELSE Append(SplitSep(SubSeq(s, 1, LastSepIndex(s) - 1)),
                Suffix(s, LastSepIndex(s) + 1))

Resolve(p) ==
    LET comps == SelectSeq(SplitSep(p), LAMBDA c : c # << >> /\ c # <<".">>)
    IN  IF IsAbs(p) THEN comps ELSE CWD \o comps

----------------------------------------------------------------------------
(* JSON text.  A document is token text: the punctuation tokens, the quote *)
(* token around a string's content token, and the bare literals.  A        *)
(* decoded value is [t, v]: t = "str" for a string, "lit" for a bare       *)
(* literal.  Nesting is outside the documents considered here.             *)

JsonPunct == {"{", "}", "[", "]", ":", ",", Q}
JsonLiterals == {"true", "false", "null", "0", "1"}

EmptyDict == << >>

\* a string literal "x" starts at token i
IsStrLit(t, i) ==
    i + 2 <= Len(t) /\ t[i] = Q /\ t[i + 2] = Q /\ t[i + 1] \notin JsonPunct

\* the scalar that starts at token i: [ok, val, next]
ScalarAt(t, i) ==
    IF IsStrLit(t, i)
    THEN [ok |-> TRUE, val |-> [t |-> "str", v |-> t[i + 1]], next |-> i + 3]
    ELSE IF i <= Len(t) /\ t[i] \in JsonLiterals
    THEN [ok |-> TRUE, val |-> [t |-> "lit", v |-> t[i]], next |-> i + 1]
    ELSE [ok |-> FALSE, val |-> [t |-> "lit", v |-> "null"], next |-> i]

JsonInvalid == [kind |-> "invalid", dict |-> EmptyDict]

\* members of an object from token i on; a repeated key keeps the last value
RECURSIVE ParseMembers(_, _, _)
ParseMembers(t, i, acc) ==
    IF ~(IsStrLit(t, i) /\ i + 3 <= Len(t) /\ t[i + 3] = ":") THEN JsonInvalid
    ELSE LET k == t[i + 1]
             s == ScalarAt(t, i + 4)
             d == (k :> s.val) @@ acc
         IN  IF ~s.ok \/ s.next > Len(t) THEN JsonInvalid
             ELSE IF t[s.next] = "}"
                  THEN IF s.next = Len(t) THEN [kind |-> "dict", dict |-> d]
                       ELSE JsonInvalid
             ELSE IF t[s.next] = "," THEN ParseMembers(t, s.next + 1, d)
             ELSE JsonInvalid

\* elements of an array from token i on
RECURSIVE ParseElements(_, _)
ParseElements(t, i) ==
    LET s == ScalarAt(t, i)
    IN  IF ~s.ok \/ s.next > Len(t) THEN JsonInvalid
        ELSE IF t[s.next] = "]"
             THEN IF s.next = Len(t) THEN [kind |-> "list", dict |-> EmptyDict]
                  ELSE JsonInvalid
        ELSE IF t[s.next] = "," THEN ParseElements(t, s.next + 1)
        ELSE JsonInvalid

\* json.loads: kind "dict" | "list" | "scalar", or "invalid" (JSONDecodeError)
JsonLoads(t) ==
    IF t = << >> THEN JsonInvalid
    ELSE IF t[1] = "{"
         THEN IF t = <<"{", "}">> THEN [kind |-> "dict", dict |-> EmptyDict]
              ELSE ParseMembers(t, 2, EmptyDict)
    ELSE IF t[1] = "["
         THEN IF t = <<"[", "]">> THEN [kind |-> "list", dict |-> EmptyDict]
              ELSE ParseElements(t, 2)
    ELSE IF ScalarAt(t, 1).ok /\ ScalarAt(t, 1).next = Len(t) + 1
         THEN [kind |-> "scalar", dict |-> EmptyDict]
    ELSE JsonInvalid

----------------------------------------------------------------------------
(* Exceptions: [type, msg, cause]; str(e) is msg; cause is the explicit    *)
(* cause (raise ... from), empty when there is none.                       *)

NoError == [type |-> "", msg |-> << >>, cause |-> ""]
Exc(type, msg) == [type |-> type, msg |-> msg, cause |-> ""]

WrapPrefix == "Failed to process Excel from URL: "

\* variant: the message is prefixed but the error keeps its type
WrapErrorSameType(e) ==
    [type |-> e.type, msg |-> <<WrapPrefix>> \o e.msg, cause |-> ""]

\* except Exception as e: raise WorkbookError(f"Failed to process Excel from URL: {str(e)}")
WrapError(e) == Exc("WorkbookError", <<WrapPrefix>> \o e.msg)

----------------------------------------------------------------------------
(* Configuration and constants of the two modules.                         *)

FILE_SERVER_URL == <<"http:", SEP, SEP, "localhost:3001">>
FILE_ACCESS_BASE_URL == FILE_SERVER_URL \o <<SEP, "files", SEP>>

\* tempfile.gettempdir()
TempDir == <<SEP, "tmp">>

\* values of the EXCEL_FILES_PATH setting: the default, a bare relative
\* name, and an absolute directory
DefaultExcelFilesPath == <<".", SEP, "excel_files">>
WorkingDirs == {DefaultExcelFilesPath, <<"excel_files">>, <<SEP, "data", SEP, "excel">>}

----------------------------------------------------------------------------
(* The five tools process_excel_from_url dispatches to.                    *)

SupportedOperations ==
    {"format_range", "apply_formula", "write_data_to_excel", "create_chart",
     "create_pivot_table"}

\* str.lower on the operation names considered
Lower(name) ==
    CASE name = "Apply_Formula" -> "apply_formula"
      [] OTHER -> name

\* variant: the name is looked up after case folding
RegistryCaseFold(operation) ==
    IF Lower(operation) \in SupportedOperations THEN Lower(operation) ELSE ""

\* the if/elif chain on operation: the tool of exactly that name, "" for the
\* else branch
Registry(operation) ==
    IF operation \in SupportedOperations THEN operation ELSE ""

\* keyword parameters of each tool's signature, besides filepath
RequiredParams(op) ==
    CASE op = "format_range" -> {"sheet_name", "start_cell"}
      [] op = "apply_formula" -> {"sheet_name", "cell", "formula"}
      [] op = "write_data_to_excel" -> {"sheet_name", "data"}
      [] op = "create_chart" ->
            {"sheet_name", "data_range", "chart_type", "target_cell"}
      [] op = "create_pivot_table" ->
            {"sheet_name", "data_range", "rows", "values"}

OptionalParams(op) ==
    CASE op = "format_range" ->
            {"end_cell", "bold", "italic", "underline", "font_size",
             "font_color", "bg_color", "border_style", "border_color",
             "number_format", "alignment", "wrap_text", "merge_cells",
             "protection", "conditional_format"}
      [] op = "apply_formula" -> {}
      [] op = "write_data_to_excel" -> {"start_cell", "write_headers"}
      [] op = "create_chart" -> {"title", "x_axis", "y_axis"}
      [] op = "create_pivot_table" -> {"columns", "agg_func"}

\* the call op(filepath, **kwargs) binds: every required parameter is given,
\* no unknown one, and filepath is not given twice
Binds(op, kwargs) ==
    /\ RequiredParams(op) \subseteq DOMAIN kwargs
    /\ DOMAIN kwargs \subseteq RequiredParams(op) \cup OptionalParams(op)

\* the domain errors each tool's except clause turns into "Error: ..."
CaughtErrors(op) ==
    CASE op = "format_range" -> {"ValidationError", "FormattingError"}
      [] op = "apply_formula" -> {"ValidationError", "CalculationError"}
      [] op = "write_data_to_excel" -> {"ValidationError", "DataError"}
      [] op = "create_chart" -> {"ValidationError", "ChartError"}
      [] op = "create_pivot_table" -> {"ValidationError", "PivotError"}

DomainErrors ==
    {"ValidationError", "CalculationError", "FormattingError", "DataError",
     "ChartError", "PivotError"}

\* What the operation library does with one call: "ok", a validation record
\* with an "error" entry (validate_formula only), or an exception: one of the
\* domain errors, or an unexpected one (KeyError stands for these).
ImplOutcomes(op) ==
    {"ok"} \cup DomainErrors \cup {"KeyError"}
           \cup (IF op = "apply_formula" THEN {"validation_error"} ELSE {})

\* str(e) of the library's error, result["message"] of its success
ImplErrorMsg(outcome) == <<outcome, " raised by the operation">>
ImplOkMsg(op) == <<op, " done">>

\* get_excel_path
GetExcelPath(filename) ==
    IF IsAbs(filename) THEN filename ELSE PathJoin(EXCEL_FILES_PATH, filename)

\* variant: the tool turns every exception of the library into a string
ToolCallStringifyAll(op, filepath, kwargs, outcome) ==
    LET full_path == GetExcelPath(filepath)
    IN  IF outcome = "ok"
        THEN [raised |-> NoError,
              ret |-> IF op = "format_range" THEN <<"Range formatted successfully">>
                      ELSE ImplOkMsg(op),
              opened |-> full_path, saved |-> TRUE]
        ELSE IF outcome = "validation_error"
        THEN [raised |-> NoError, ret |-> <<"Error: ", "invalid formula">>,
              opened |-> full_path, saved |-> FALSE]
        ELSE [raised |-> NoError, ret |-> <<"Error: ">> \o ImplErrorMsg(outcome),
              opened |-> full_path, saved |-> FALSE]

\* One call of a tool: full_path = get_excel_path(filepath), the library call
\* on full_path, and the tool's except clauses.
\* [raised, ret, opened, saved]: the exception that leaves the tool (NoError
\* when it returns), the string it returns, the path handed to the library
\* and whether the library saved the workbook there.
ToolCall(op, filepath, kwargs, outcome) ==
    LET full_path == GetExcelPath(filepath)
    IN  IF outcome = "ok"
        THEN [raised |-> NoError,
              ret |-> IF op = "format_range" THEN <<"Range formatted successfully">>
                      ELSE ImplOkMsg(op),
              opened |-> full_path, saved |-> TRUE]
        ELSE IF outcome = "validation_error"
        THEN [raised |-> NoError, ret |-> <<"Error: ", "invalid formula">>,
              opened |-> full_path, saved |-> FALSE]
        ELSE IF outcome \in CaughtErrors(op)
        THEN [raised |-> NoError, ret |-> <<"Error: ">> \o ImplErrorMsg(outcome),
              opened |-> full_path, saved |-> FALSE]
        ELSE [raised |-> Exc(outcome, ImplErrorMsg(outcome)), ret |-> << >>,
              opened |-> full_path, saved |-> FALSE]

\* variant: operation_params is passed on as it is
KeepFilepath(d) == d

\* {k: v for k, v in operation_params.items() if k != "filepath"}
StripFilepath(d) == [k \in (DOMAIN d) \ {"filepath"} |-> d[k]]

----------------------------------------------------------------------------
(* File operations and the file transfer client (workbook.py).             *)

\* a file's content: the request that wrote it last, and whether a
\* spreadsheet operation has edited it
Content(r, edited) == [by |-> r, edited |-> edited]
NoContent == [by |-> 0, edited |-> FALSE]

Exists(fsys, p) == Resolve(p) \in DOMAIN fsys

WriteFile(fsys, p, c) == (Resolve(p) :> c) @@ fsys

\* variant: the file is left in place
KeepFile(fsys, p) == fsys

\* os.remove
RemoveFile(fsys, p) == [q \in (DOMAIN fsys) \ {Resolve(p)} |-> fsys[q]]

\* variant: shutil.move, the source is gone after the copy
MoveFile(fsys, src, dst) == RemoveFile(WriteFile(fsys, dst, fsys[Resolve(src)]), src)

\* shutil.copy2
CopyFile(fsys, src, dst) == WriteFile(fsys, dst, fsys[Resolve(src)])

DownloadOutcomes == {"ok", "http_error", "stream_error"}

\* download_file_from_url: [fs, raised]
DownloadFileFromUrl(fsys, r, save_path, outcome) ==
    IF outcome = "ok"
    THEN [fs |-> WriteFile(fsys, save_path, Content(r, FALSE)), raised |-> NoError]
    ELSE IF outcome = "http_error"
    THEN [fs |-> fsys,
          raised |-> Exc("WorkbookError",
                         <<"Failed to download file: ", "404 Client Error">>)]
    ELSE [fs |-> WriteFile(fsys, save_path, Content(r, FALSE)),
          raised |-> Exc("WorkbookError",
                         <<"Failed to download file: ", "Connection broken">>)]

\* What the file server answers: a response [status_code, text], or no
\* response at all (requests.post raises).
UploadOutcomes ==
    {[kind |-> "response", status_code |-> 200, text |-> "OK"],
     [kind |-> "response", status_code |-> 201, text |-> "bad gateway"],
     [kind |-> "response", status_code |-> 500, text |-> "disk full"],
     [kind |-> "conn_error", status_code |-> 0, text |-> "Connection refused"]}

NoResponse == [kind |-> "", status_code |-> 0, text |-> ""]

NoUploadResult == [message |-> << >>, file_url |-> << >>, filename |-> << >>]

\* variant: the response's status code is not looked at
UploadIgnoringStatus(fsys, filepath, net) ==
    IF ~Exists(fsys, filepath) \/ net.kind = "conn_error"
    THEN [raised |-> Exc("WorkbookError", <<"Failed to upload file: ", net.text>>),
          result |-> NoUploadResult]
    ELSE [raised |-> NoError,
          result |-> [message |-> <<"File uploaded successfully">>,
                      file_url |-> FILE_ACCESS_BASE_URL \o Basename(filepath),
                      filename |-> Basename(filepath)]]

\* upload_file_to_server: [raised, result]; every exception of the body is
\* caught and raised again as WorkbookError("Failed to upload file: " + str(e))
UploadFileToServer(fsys, filepath, net) ==
    LET inner ==
            IF ~Exists(fsys, filepath)
            THEN Exc("WorkbookError", <<"File not found: ">> \o filepath)
            ELSE IF net.kind = "conn_error"
            THEN Exc("ConnectionError", <<net.text>>)
            ELSE IF net.status_code # 200
            THEN Exc("WorkbookError", <<"Failed to upload file: ", net.text>>)
            ELSE NoError
    IN  IF inner # NoError
        THEN [raised |-> Exc("WorkbookError",
                             <<"Failed to upload file: ">> \o inner.msg),
              result |-> NoUploadResult]
        ELSE [raised |-> NoError,
              result |-> [message |-> <<"File uploaded successfully">>,
                          file_url |-> FILE_ACCESS_BASE_URL \o Basename(filepath),
                          filename |-> Basename(filepath)]]

----------------------------------------------------------------------------
(* The requests considered.                                                *)

Str(x) == [t |-> "str", v |-> x]
Lit(x) == [t |-> "lit", v |-> x]

D_formula == [sheet_name |-> Str("Sheet1"), cell |-> Str("B2"), formula |-> Str("=A1+1")]
D_format == [sheet_name |-> Str("Sheet1"), start_cell |-> Str("A1"), bold |-> Lit("true")]
D_write == [sheet_name |-> Str("Sheet1"), data |-> Str("rows")]
D_chart == [sheet_name |-> Str("Sheet1"), data_range |-> Str("A1:B2"),
            chart_type |-> Str("bar"), target_cell |-> Str("D1")]
D_pivot == [sheet_name |-> Str("Sheet1"), data_range |-> Str("A1:B2"),
            rows |-> Str("r"), values |-> Str("v")]
D_formula_fp == [filepath |-> Str("/etc/other.xlsx"), sheet_name |-> Str("Sheet1"),
                 cell |-> Str("B2"), formula |-> Str("=A1+1")]
D_write_fp == [filepath |-> Str("elsewhere.xlsx"), sheet_name |-> Str("Sheet1"),
               data |-> Str("rows")]
D_missing == [sheet_name |-> Str("Sheet1")]
D_unknown == [sheet_name |-> Str("Sheet1"), data |-> Str("rows"), bogus |-> Lit("1")]

ParamMappings ==
    {EmptyDict, D_formula, D_format, D_write, D_chart, D_pivot, D_formula_fp,
     D_write_fp, D_missing, D_unknown}

\* the mappings also sent as JSON text
EncodedMappings == {EmptyDict, D_missing, D_formula, D_write_fp}

\* the orders in which a mapping's entries can be written
Orders(d) ==
    {o \in [1..Cardinality(DOMAIN d) -> DOMAIN d] :
        \A i, j \in DOMAIN o : o[i] = o[j] => i = j}

MemberText(k, val) ==
    <<Q, k, Q, ":">> \o (IF val.t = "str" THEN <<Q, val.v, Q>> ELSE <<val.v>>)

RECURSIVE MembersText(_, _, _)
MembersText(d, order, i) ==
    IF i > Len(order) THEN << >>
    ELSE (IF i > 1 THEN <<",">> ELSE << >>)
         \o MemberText(order[i], d[order[i]]) \o MembersText(d, order, i + 1)

\* json.dumps of a mapping, its entries written in the given order
JsonDumps(d, order) == <<"{">> \o MembersText(d, order, 1) \o <<"}">>

\* texts that are not JSON
InvalidJsonTexts ==
    { << >>, <<"not json">>, <<"{", Q, "cell", Q, ":", Q, "B2", Q>>,
      <<"{", Q, "cell", Q, ":", Q, "B2", Q, ",", "}">>, <<"{", "cell", ":", "1", "}">> }

\* JSON that is not a mapping, and a mapping with a repeated key
OtherJsonTexts ==
    { <<"[", "1", "]">>, <<"1">>, <<Q, "abc", Q>>,
      <<"{", Q, "cell", Q, ":", Q, "A1", Q, ",", Q, "cell", Q, ":", Q, "B2", Q, "}">> }

DictParam(d) == [kind |-> "dict", dict |-> d, text |-> << >>]
StrParam(t) == [kind |-> "str", dict |-> EmptyDict, text |-> t]
ListParam == [kind |-> "list", dict |-> EmptyDict, text |-> << >>]

ParamValues ==
    {DictParam(d) : d \in ParamMappings}
    \cup UNION {{StrParam(JsonDumps(d, o)) : o \in Orders(d)} : d \in EncodedMappings}
    \cup {StrParam(t) : t \in InvalidJsonTexts \cup OtherJsonTexts}
    \cup {ListParam}

OperationNames ==
    SupportedOperations \cup {"delete_everything", "Apply_Formula", "apply"}

U_x_test == <<"http:", SEP, SEP, "x", SEP, "test.xlsx">>
U_y_test == <<"http:", SEP, SEP, "y", SEP, "test.xlsx">>
U_x_b == <<"http:", SEP, SEP, "x", SEP, "data", SEP, "b.xlsx">>
U_x_dir == <<"http:", SEP, SEP, "x", SEP>>

Urls == {U_x_test, U_y_test, U_x_b, U_x_dir}

Request(url, operation, params) ==
    [url |-> url, operation |-> operation, operation_params |-> params]

\* any request
AllRequests ==
    {Request(u, o, p) : u \in Urls, o \in OperationNames, p \in ParamValues}

\* the requests considered when several are in flight together: the first
\* is for U_x_test, each other one for a url with the same last segment or
\* for one with another
ConcurrentRequest(u) == Request(u, "format_range", DictParam(D_format))

InitFrame ==
    [temp_filepath |-> << >>, processed_filepath |-> << >>,
     operation_params |-> DictParam(EmptyDict), result_message |-> << >>,
     upload_result |-> NoUploadResult]

InitHist ==
    [steps |-> << >>, calls |-> << >>, opened |-> << >>, outcome |-> "",
     raised |-> NoError, written |-> {}, response |-> NoResponse,
     uploaded |-> NoContent]

\* one request alone, with any arguments
InitSingle ==
    /\ EXCEL_FILES_PATH \in WorkingDirs
    /\ \E q \in AllRequests :
          req = [r \in Requests |->
                    IF r = 1 THEN q
                    ELSE Request(U_x_test, "apply_formula", DictParam(D_formula))]
    /\ pc = [r \in Requests |-> IF r = 1 THEN "start" ELSE "unused"]

\* NumRequests requests that the hosting runtime may interleave, under the
\* default configuration
InitConcurrent ==
    /\ EXCEL_FILES_PATH = DefaultExcelFilesPath
    /\ \E us \in [Requests -> {U_y_test, U_x_b}] :
          req = [r \in Requests |->
                    ConcurrentRequest(IF r = 1 THEN U_x_test ELSE us[r])]
    /\ pc = [r \in Requests |-> "start"]

Init ==
    /\ InitSingle \/ InitConcurrent
    /\ frame = [r \in Requests |-> InitFrame]
    /\ fs = << >>
    /\ ret = [r \in Requests |-> << >>]
    /\ error = [r \in Requests |-> NoError]
    /\ hist = [r \in Requests |-> InitHist]

----------------------------------------------------------------------------
(* process_excel_from_url, one action per step of its try block.  A step   *)
(* that raises leaves through the except clause at once: the caller gets   *)
(* WrapError of what was raised.                                           *)

Locals(r) == frame[r]

\* uuid.uuid4() in call r: a value that no other call draws; the call's own
\* number stands for it
Uuid4(r) == ToString(r)

\* f"temp_excel_{uuid.uuid4()}.xlsx"
TempFilename(u) == <<"temp_excel_", u, ".xlsx">>

\* processed_filepath of the request's url
ProcessedFilepath(url) ==
    PathJoin(EXCEL_FILES_PATH, <<"processed_">> \o Basename(SplitLast(url)))

\* variant: a step that raises is tried again
RaisesAndRetries(r, step, e) ==
    /\ hist' = [hist EXCEPT ![r].steps = Append(@, step), ![r].raised = e]
    /\ UNCHANGED <<pc, error, ret>>

\* the step is recorded, the exception e reaches the except clause
Raises(r, step, e) ==
    /\ pc' = [pc EXCEPT ![r] = "failed"]
    /\ error' = [error EXCEPT ![r] = WrapError(e)]
    /\ hist' = [hist EXCEPT ![r].steps = Append(@, step), ![r].raised = e]
    /\ UNCHANGED ret

\* the step is recorded and the call goes on to the next step
Proceeds(r, step, next) ==
    /\ pc' = [pc EXCEPT ![r] = next]
    /\ hist' = [hist EXCEPT ![r].steps = Append(@, step)]
    /\ UNCHANGED <<error, ret>>

GenerateTempPath(r) ==
    /\ pc[r] = "start"
    /\ frame' = [frame EXCEPT ![r].temp_filepath = PathJoin(TempDir, TempFilename(Uuid4(r)))]
    /\ Proceeds(r, "generate_temp_path", "download")
    /\ UNCHANGED <<EXCEL_FILES_PATH, req, fs>>

Download(r) ==
    /\ pc[r] = "download"
    /\ \E outcome \in DownloadOutcomes :
          LET res == DownloadFileFromUrl(fs, r, Locals(r).temp_filepath, outcome)
              wrote == IF res.fs # fs THEN {Resolve(Locals(r).temp_filepath)} ELSE {}
          IN  /\ fs' = res.fs
              /\ pc' = [pc EXCEPT ![r] = IF res.raised # NoError THEN "failed" ELSE "stage"]
              /\ error' = [error EXCEPT ![r] =
                              IF res.raised # NoError THEN WrapError(res.raised) ELSE @]
              /\ hist' = [hist EXCEPT ![r].steps = Append(@, "download"),
                                      ![r].raised = res.raised,
                                      ![r].written = @ \cup wrote]
              /\ UNCHANGED ret
    /\ UNCHANGED <<EXCEL_FILES_PATH, req, frame>>

StageOutcomes == {"ok", "os_error"}

Stage(r) ==
    /\ pc[r] = "stage"
    /\ LET dst == ProcessedFilepath(req[r].url)
           src == Locals(r).temp_filepath
       IN  /\ frame' = [frame EXCEPT ![r].processed_filepath = dst]
           /\ \E outcome \in StageOutcomes :
                 IF ~Exists(fs, src)
                 THEN /\ Raises(r, "stage", Exc("FileNotFoundError",
                                   <<"[Errno 2] No such file or directory: ">> \o src))
                      /\ UNCHANGED fs
                 ELSE IF outcome = "os_error"
                 THEN /\ Raises(r, "stage", Exc("PermissionError",
                                   <<"[Errno 13] Permission denied: ">> \o dst))
                      /\ UNCHANGED fs
                 ELSE /\ fs' = CopyFile(fs, src, dst)
                      /\ pc' = [pc EXCEPT ![r] = "normalize"]
                      /\ hist' = [hist EXCEPT ![r].steps = Append(@, "stage"),
                                              ![r].written = @ \cup {Resolve(dst)}]
                      /\ UNCHANGED <<error, ret>>
    /\ UNCHANGED <<EXCEL_FILES_PATH, req>>

\* variant: text that is not JSON falls back to an empty mapping
NormalizeParamsLenient(p) ==
    IF p.kind # "str" THEN [raised |-> NoError, value |-> p]
    ELSE LET v == JsonLoads(p.text)
         IN  [raised |-> NoError,
              value |-> [kind |-> IF v.kind = "invalid" THEN "dict" ELSE v.kind,
                         dict |-> v.dict, text |-> << >>]]

\* the value of operation_params after the isinstance(..., str) block:
\* [raised, value]
NormalizeParams(p) ==
    IF p.kind # "str" THEN [raised |-> NoError, value |-> p]
    ELSE LET v == JsonLoads(p.text)
         IN  IF v.kind = "invalid"
             THEN [raised |-> Exc("ValueError", <<"Invalid JSON format in operation_params">>),
                   value |-> p]
             ELSE [raised |-> NoError,
                   value |-> [kind |-> v.kind, dict |-> v.dict, text |-> << >>]]

Normalize(r) ==
    /\ pc[r] = "normalize"
    /\ LET res == NormalizeParams(req[r].operation_params)
       IN  /\ frame' = [frame EXCEPT ![r].operation_params = res.value]
           /\ IF res.raised # NoError
              THEN Raises(r, "normalize", res.raised)
              ELSE Proceeds(r, "normalize", "dispatch")
    /\ UNCHANGED <<EXCEL_FILES_PATH, req, fs>>

\* the branch of the if/elif chain for a supported operation: params is
\* built from operation_params.items(), the tool is called with the
\* processed file's path and **params
Dispatch(r) ==
    /\ pc[r] = "dispatch"
    /\ LET fn == Registry(req[r].operation)
           p == Locals(r).operation_params
           path == Locals(r).processed_filepath
       IN  IF fn = ""
           THEN /\ Raises(r, "dispatch",
                          Exc("ValueError", <<"Unsupported operation: ", req[r].operation>>))
                /\ UNCHANGED <<fs, frame>>
           ELSE IF p.kind # "dict"
           THEN /\ Raises(r, "dispatch",
                          Exc("AttributeError",
                              <<"'", p.kind, "' object has no attribute 'items'">>))
                /\ UNCHANGED <<fs, frame>>
           ELSE IF ~Binds(fn, StripFilepath(p.dict))
           THEN /\ Raises(r, "dispatch",
                          Exc("TypeError", <<fn, "() got unexpected or missing arguments">>))
                /\ UNCHANGED <<fs, frame>>
           ELSE \E outcome \in ImplOutcomes(fn) :
                  LET params == StripFilepath(p.dict)
                      res == ToolCall(fn, path, params, outcome)
                      called == [fn |-> fn, filepath |-> path, kwargs |-> params]
                  IN  /\ fs' = IF res.saved
                               THEN WriteFile(fs, res.opened, Content(r, TRUE))
                               ELSE fs
                      /\ frame' = [frame EXCEPT ![r].result_message = res.ret]
                      /\ pc' = [pc EXCEPT ![r] =
                                   IF res.raised # NoError THEN "failed" ELSE "upload"]
                      /\ error' = [error EXCEPT ![r] =
                                      IF res.raised # NoError THEN WrapError(res.raised)
                                      ELSE @]
                      /\ hist' = [hist EXCEPT ![r].steps = Append(@, "dispatch"),
                                              ![r].calls = Append(@, called),
                                              ![r].opened = res.opened,
                                              ![r].outcome = outcome,
                                              ![r].written =
                                                  IF res.saved
                                                  THEN @ \cup {Resolve(res.opened)}
                                                  ELSE @,
                                              ![r].raised = res.raised]
                      /\ UNCHANGED ret
    /\ UNCHANGED <<EXCEL_FILES_PATH, req>>

Upload(r) ==
    /\ pc[r] = "upload"
    /\ \E net \in UploadOutcomes :
          LET path == Locals(r).processed_filepath
              res == UploadFileToServer(fs, path, net)
              posted == IF Exists(fs, path) THEN net ELSE NoResponse
          IN  IF res.raised # NoError
              THEN /\ pc' = [pc EXCEPT ![r] = "failed"]
                   /\ error' = [error EXCEPT ![r] = WrapError(res.raised)]
                   /\ hist' = [hist EXCEPT ![r].steps = Append(@, "upload"),
                                           ![r].raised = res.raised,
                                           ![r].response = posted]
                   /\ UNCHANGED <<frame, ret>>
              ELSE /\ frame' = [frame EXCEPT ![r].upload_result = res.result]
                   /\ pc' = [pc EXCEPT ![r] = "cleanup"]
                   /\ hist' = [hist EXCEPT ![r].steps = Append(@, "upload"),
                                           ![r].response = posted,
                                           ![r].uploaded = fs[Resolve(path)]]
                   /\ UNCHANGED <<error, ret>>
    /\ UNCHANGED <<EXCEL_FILES_PATH, req, fs>>

CleanupOutcomes == {"ok", "os_error"}

Cleanup(r) ==
    /\ pc[r] = "cleanup"
    /\ LET tmp == Locals(r).temp_filepath
       IN  \E outcome \in CleanupOutcomes :
             IF ~Exists(fs, tmp)
             THEN /\ Raises(r, "cleanup", Exc("FileNotFoundError",
                               <<"[Errno 2] No such file or directory: ">> \o tmp))
                  /\ UNCHANGED fs
             ELSE IF outcome = "os_error"
             THEN /\ Raises(r, "cleanup", Exc("PermissionError",
                               <<"[Errno 1] Operation not permitted: ">> \o tmp))
                  /\ UNCHANGED fs
             ELSE /\ fs' = RemoveFile(fs, tmp)
                  /\ Proceeds(r, "cleanup", "respond")
    /\ UNCHANGED <<EXCEL_FILES_PATH, req, frame>>

\* the f-string returned on success
SuccessString(operation, file_url, result_message) ==
    <<"Operation '", operation, "' ", "completed successfully",
      ". Processed file available at: ">> \o file_url
    \o <<"\nOperation result: ">> \o result_message

Respond(r) ==
    /\ pc[r] = "respond"
    /\ ret' = [ret EXCEPT ![r] =
                  SuccessString(req[r].operation, Locals(r).upload_result.file_url,
                                Locals(r).result_message)]
    /\ pc' = [pc EXCEPT ![r] = "returned"]
    /\ hist' = [hist EXCEPT ![r].steps = Append(@, "respond")]
    /\ UNCHANGED <<EXCEL_FILES_PATH, req, frame, fs, error>>

Next ==
    \E r \in Requests :
        \/ GenerateTempPath(r)
        \/ Download(r)
        \/ Stage(r)
        \/ Normalize(r)
        \/ Dispatch(r)
        \/ Upload(r)
        \/ Cleanup(r)
        \/ Respond(r)

Spec == Init /\ [][Next]_vars

----------------------------------------------------------------------------
(* The five tools called directly by a client, without the orchestrator.   *)

\* filepath arguments of a direct call: relative to the working directory,
\* in a subdirectory of it, absolute
ToolFilepaths ==
    { <<"book.xlsx">>, <<"reports", SEP, "q1.xlsx">>,
      <<SEP, "data", SEP, "book.xlsx">> }

\* keyword arguments that bind to the tool's signature
KwargsFor(tool) ==
    CASE tool = "format_range" -> D_format
      [] tool = "apply_formula" -> D_formula
      [] tool = "write_data_to_excel" -> D_write
      [] tool = "create_chart" -> D_chart
      [] tool = "create_pivot_table" -> D_pivot

\* the call tool(filepath, **kwargs)
DirectCall(tool, filepath, kwargs) ==
    [url |-> << >>, operation |-> tool, operation_params |-> DictParam(kwargs),
     filepath |-> filepath]

DirectCalls ==
    {DirectCall(t, f, KwargsFor(t)) : t \in SupportedOperations, f \in ToolFilepaths}

InitTools ==
    /\ EXCEL_FILES_PATH \in WorkingDirs
    /\ \E q \in DirectCalls :
          req = [r \in Requests |->
                    IF r = 1 THEN q
                    ELSE DirectCall("apply_formula", <<"book.xlsx">>, D_formula)]
    /\ pc = [r \in Requests |-> IF r = 1 THEN "tool_call" ELSE "unused"]
    /\ frame = [r \in Requests |-> InitFrame]
    /\ fs = << >>
    /\ ret = [r \in Requests |-> << >>]
    /\ error = [r \in Requests |-> NoError]
    /\ hist = [r \in Requests |-> InitHist]

\* the body of the tool, from its try to its return or raise: what leaves
\* the tool reaches the client as it is
CallTool(r) ==
    /\ pc[r] = "tool_call"
    /\ \E outcome \in ImplOutcomes(req[r].operation) :
          LET kwargs == req[r].operation_params.dict
              res == ToolCall(req[r].operation, req[r].filepath, kwargs, outcome)
              called == [fn |-> req[r].operation, filepath |-> req[r].filepath,
                         kwargs |-> kwargs]
          IN  /\ fs' = IF res.saved
                       THEN WriteFile(fs, res.opened, Content(r, TRUE))
                       ELSE fs
              /\ pc' = [pc EXCEPT ![r] =
                           IF res.raised # NoError THEN "tool_raised"
                           ELSE "tool_returned"]
              /\ ret' = [ret EXCEPT ![r] = res.ret]
              /\ error' = [error EXCEPT ![r] = res.raised]
              /\ hist' = [hist EXCEPT ![r].calls = Append(@, called),
                                      ![r].opened = res.opened,
                                      ![r].outcome = outcome,
                                      ![r].written =
                                          IF res.saved THEN @ \cup {Resolve(res.opened)}
                                          ELSE @,
                                      ![r].raised = res.raised]
    /\ UNCHANGED <<EXCEL_FILES_PATH, req, frame>>

NextTools == \E r \in Requests : CallTool(r)

SpecTools == InitTools /\ [][NextTools]_vars

----------------------------------------------------------------------------
(* Properties.                                                             *)

Range(s) == {s[i] : i \in DOMAIN s}

\* request r has attempted the step
Did(r, step) == step \in Range(hist[r].steps)

\* the step at which request r's call failed
FailedAt(r, step) ==
    pc[r] = "failed" /\ hist[r].steps[Len(hist[r].steps)] = step

\* <working_dir>/processed_<last segment of the url>
ExpectedProcessedPath(r) ==
    EXCEL_FILES_PATH \o <<SEP, "processed_">> \o SplitLast(req[r].url)

\* the entries of d whose key is not filepath
WithoutFilepath(d, kwargs) ==
    /\ DOMAIN kwargs = (DOMAIN d) \ {"filepath"}
    /\ \A k \in DOMAIN kwargs : kwargs[k] = d[k]

\* C1: whenever the dispatched operation fails with a domain-specific error,
\* the run ends in failure: an error is raised, the upload is never
\* performed, and no string containing "completed successfully" is returned.
C1_DomainErrorEndsInFailure ==
    \A r \in Requests :
        (Did(r, "dispatch") /\ hist[r].outcome \in DomainErrors) =>
            /\ pc[r] = "failed"
            /\ error[r] # NoError
            /\ ~Did(r, "upload")
            /\ ~Contains(ret[r], <<"completed successfully">>)

\* C2: the file the dispatched operation opens is the file staged at
\* <working_dir>/processed_<basename(url)>, which is the file uploaded, for
\* every configured working directory.
C2_OperationOpensStagedFile ==
    \A r \in Requests :
        hist[r].calls # << >> =>
            /\ Resolve(Locals(r).processed_filepath) = Resolve(ExpectedProcessedPath(r))
            /\ Resolve(hist[r].opened) = Resolve(Locals(r).processed_filepath)

\* C3: the paths a request writes (its temporary file, its processed file)
\* are unique to it: no request writes a path another request writes, and
\* no request uploads a file another request wrote, also when both urls
\* end in the same filename.
C3_PathsUniquePerRequest ==
    \A r1, r2 \in Requests :
        r1 # r2 =>
            /\ hist[r1].written \cap hist[r2].written = {}
            /\ hist[r1].uploaded.by \in {0, r1}

\* C4: for an operation name that is not exactly one of the five supported
\* names, no spreadsheet operation and no upload is performed, the call
\* never returns a string, and the dispatch step fails with an error whose
\* message contains "Unsupported operation: <name>".
C4_UnsupportedOperationFails ==
    \A r \in Requests :
        req[r].operation \notin
            {"format_range", "apply_formula", "write_data_to_excel", "create_chart",
             "create_pivot_table"} =>
            /\ hist[r].calls = << >>
            /\ ~Did(r, "upload")
            /\ pc[r] \notin {"upload", "cleanup", "respond", "returned"}
            /\ ret[r] = << >>
            /\ Did(r, "dispatch") =>
                  /\ pc[r] = "failed"
                  /\ Contains(error[r].msg, <<"Unsupported operation: ", req[r].operation>>)

\* a name differing from a supported one only in case was rejected at dispatch
C4_Witness ==
    /\ req[1].operation = "Apply_Formula"
    /\ FailedAt(1, "dispatch")
    /\ Contains(error[1].msg, <<"Unsupported operation: ", "Apply_Formula">>)

\* the mapping is well-formed for the tool: without filepath, its keys are
\* parameters of the tool and include the required ones
WellFormedFor(op, d) ==
    /\ RequiredParams(op) \subseteq (DOMAIN d) \ {"filepath"}
    /\ (DOMAIN d) \ {"filepath"} \subseteq RequiredParams(op) \cup OptionalParams(op)

\* C5: for a supported operation name and a well-formed mapping, dispatch
\* invokes exactly one operation, the one of that name, with the processed
\* file's path as file path and exactly the entries whose key is not
\* filepath; a filepath entry never reaches the operation.
C5_DispatchInvokesNamedOperation ==
    \A r \in Requests :
        LET p == Locals(r).operation_params
        IN  /\ Len(hist[r].calls) <= 1
            /\ \A i \in DOMAIN hist[r].calls :
                  /\ hist[r].calls[i].fn = req[r].operation
                  /\ "filepath" \notin DOMAIN hist[r].calls[i].kwargs
            /\ ( /\ Did(r, "dispatch")
                 /\ req[r].operation \in SupportedOperations
                 /\ p.kind = "dict"
                 /\ WellFormedFor(req[r].operation, p.dict) ) =>
                    /\ Len(hist[r].calls) = 1
                    /\ hist[r].calls[1].fn = req[r].operation
                    /\ hist[r].calls[1].filepath = ExpectedProcessedPath(r)
                    /\ WithoutFilepath(p.dict, hist[r].calls[1].kwargs)

\* a mapping with a filepath entry was dispatched without it
C5_Witness ==
    /\ req[1].operation = "apply_formula"
    /\ req[1].operation_params = DictParam(D_formula_fp)
    /\ Len(hist[1].calls) = 1
    /\ hist[1].calls[1].kwargs = D_formula

\* C6: given as JSON text of a mapping, operation_params is after
\* normalization what it is when that mapping is passed directly, and so
\* are the parameters dispatched; given as text that is not JSON, the call
\* fails at normalization, and dispatches and uploads nothing.
C6_JsonStringNormalization ==
    \A r \in Requests :
        LET given == req[r].operation_params
        IN  given.kind = "str" =>
            /\ \A d \in EncodedMappings : \A o \in Orders(d) :
                  given.text = JsonDumps(d, o) =>
                     /\ Did(r, "normalize") => Locals(r).operation_params = DictParam(d)
                     /\ \A i \in DOMAIN hist[r].calls :
                           WithoutFilepath(d, hist[r].calls[i].kwargs)
            /\ given.text \in InvalidJsonTexts =>
                  /\ hist[r].calls = << >>
                  /\ ~Did(r, "dispatch")
                  /\ ~Did(r, "upload")
                  /\ ret[r] = << >>
                  /\ Did(r, "normalize") =>
                        /\ FailedAt(r, "normalize")
                        /\ Contains(error[r].msg, <<"Invalid JSON format in operation_params">>)

\* a mapping sent as JSON text, filepath entry included, was dispatched
C6_Witness ==
    /\ req[1].operation = "write_data_to_excel"
    /\ req[1].operation_params.kind = "str"
    /\ JsonLoads(req[1].operation_params.text).dict = D_write_fp
    /\ Len(hist[1].calls) = 1
    /\ hist[1].calls[1].kwargs = D_write

\* C7: after a run that returned a string, the temporary file does not
\* exist and the processed file exists at
\* <working_dir>/processed_<basename(url)>.
C7_SuccessLeavesProcessedNotTemp ==
    \A r \in Requests :
        pc[r] = "returned" =>
            /\ ret[r] # << >>
            /\ ~Exists(fs, Locals(r).temp_filepath)
            /\ Exists(fs, ExpectedProcessedPath(r))

\* a run returned its string
C7_Witness ==
    /\ pc[1] = "returned"
    /\ Contains(ret[1], <<"completed successfully">>)
    /\ hist[1].outcome = "ok"

\* C8: when a run fails at staging, normalization, dispatch or upload, the
\* temporary file is still on disk when the error reaches the caller.
C8_FailureLeavesTempFile ==
    \A r \in Requests :
        (\E step \in {"stage", "normalize", "dispatch", "upload"} : FailedAt(r, step)) =>
            /\ error[r] # NoError
            /\ Exists(fs, Locals(r).temp_filepath)

\* a run failed in the dispatched operation, after staging
C8_Witness ==
    /\ FailedAt(1, "dispatch")
    /\ hist[1].outcome = "KeyError"
    /\ Exists(fs, Locals(1).temp_filepath)

\* every exception that leaves a step is raised to the caller as one
\* WorkbookError whose message is the prefix followed by that exception's
\* message, with no explicit cause, and a failed run returns no string
ErrorsLeavingStepsAreWrapped ==
    \A r \in Requests :
        /\ (hist[r].raised # NoError) <=> (pc[r] = "failed")
        /\ (pc[r] = "failed") <=> (error[r] # NoError)
        /\ pc[r] = "failed" =>
              /\ error[r].type = "WorkbookError"
              /\ error[r].msg = <<"Failed to process Excel from URL: ">> \o hist[r].raised.msg
              /\ error[r].cause = ""
              /\ ret[r] = << >>

\* C9: every error raised during a step, the errors the dispatched
\* operation raises included, reaches the caller as exactly one
\* WorkbookError whose message is "Failed to process Excel from URL: "
\* followed by the original error's message; no other error type escapes.
C9_EveryErrorReachesCallerWrapped ==
    /\ ErrorsLeavingStepsAreWrapped
    /\ \A r \in Requests :
          (Did(r, "dispatch") /\ hist[r].outcome \in DomainErrors \cup {"KeyError"}) =>
              /\ pc[r] = "failed"
              /\ error[r].type = "WorkbookError"
              /\ error[r].msg = <<"Failed to process Excel from URL: ">>
                                   \o ImplErrorMsg(hist[r].outcome)

\* C10: when the upload receives a response whose status is not 200, the
\* run fails with a wrapped error whose message contains the response body,
\* the cleanup step is not executed and no string is returned.
C10_UploadNon200Fails ==
    \A r \in Requests :
        (hist[r].response.kind = "response" /\ hist[r].response.status_code # 200) =>
            /\ FailedAt(r, "upload")
            /\ error[r].type = "WorkbookError"
            /\ StartsWith(error[r].msg, <<"Failed to process Excel from URL: ">>)
            /\ Contains(error[r].msg, <<hist[r].response.text>>)
            /\ ~Did(r, "cleanup")
            /\ Exists(fs, Locals(r).temp_filepath)
            /\ ret[r] = << >>

\* the file server answered 201 and the run failed
C10_Witness ==
    /\ hist[1].response.status_code = 201
    /\ hist[1].response.text = "bad gateway"
    /\ pc[1] = "failed"

\* the errors of each tool's own operation: ValidationError and the error
\* type named after the operation
ConvertedErrors(tool) ==
    {"ValidationError"} \cup
    (CASE tool = "apply_formula" -> {"CalculationError"}
       [] tool = "format_range" -> {"FormattingError"}
       [] tool = "write_data_to_excel" -> {"DataError"}
       [] tool = "create_chart" -> {"ChartError"}
       [] tool = "create_pivot_table" -> {"PivotError"})

ToolDone(r) == pc[r] \in {"tool_returned", "tool_raised"}

\* C11: in a direct call of one of the five tools, when the library raises a
\* domain error of the tool's operation (ValidationError, or the error type
\* of that operation) nothing is raised to the client and the string
\* returned is "Error: " followed by the error's message; when it raises
\* anything else the tool returns no string and the client gets that very
\* error: same type, same message, no cause attached.
C11_ToolErrorsStringOrReraised ==
    \A r \in Requests :
        ToolDone(r) /\ hist[r].outcome \notin {"ok", "validation_error"} =>
            LET e == hist[r].outcome
            IN  IF e \in ConvertedErrors(req[r].operation)
                THEN /\ pc[r] = "tool_returned"
                     /\ error[r] = NoError
                     /\ StartsWith(ret[r], <<"Error: ">>)
                     /\ ret[r] = <<"Error: ">> \o ImplErrorMsg(e)
                ELSE /\ pc[r] = "tool_raised"
                     /\ ret[r] = << >>
                     /\ error[r] = [type |-> e, msg |-> ImplErrorMsg(e), cause |-> ""]

\* format_range has returned the message of a FormattingError as a string
C11_Witness ==
    /\ pc[1] = "tool_returned"
    /\ req[1].operation = "format_range"
    /\ hist[1].outcome = "FormattingError"
    /\ ret[1] = <<"Error: ", "FormattingError", " raised by the operation">>

\* the string the dispatched tool returned in run r
ToolMessage(r) ==
    LET c == hist[r].calls[1]
    IN  ToolCall(c.fn, c.filepath, c.kwargs, hist[r].outcome).ret

\* the file server's file-access base url followed by processed_<last
\* segment of the request's url>
ExpectedFileUrl(url) ==
    <<"http:", SEP, SEP, "localhost:3001", SEP, "files", SEP, "processed_">>
    \o SplitLast(url)

\* C12: the string a successful run of process_excel_from_url returns names
\* the requested operation, contains the message the operation's tool
\* returned, and contains the file url, which is the file-access base url
\* followed by processed_<last segment of the request url>; two runs whose
\* urls end in the same segment report the same file url.
C12_SuccessStringContents ==
    \A r \in Requests :
        pc[r] = "returned" =>
            /\ StartsWith(ret[r], <<"Operation '", req[r].operation, "' ",
                                    "completed successfully">>)
            /\ Len(hist[r].calls) = 1
            /\ ToolMessage(r) # << >>
            /\ Contains(ret[r], <<"\nOperation result: ">> \o ToolMessage(r))
            /\ Locals(r).upload_result.file_url = ExpectedFileUrl(req[r].url)
            /\ Contains(ret[r], <<". Processed file available at: ">>
                                \o ExpectedFileUrl(req[r].url)
                                \o <<"\nOperation result: ">>)
            /\ \A q \in Requests :
                  pc[q] = "returned" /\ SplitLast(req[q].url) = SplitLast(req[r].url)
                      => Locals(q).upload_result.file_url
                           = Locals(r).upload_result.file_url

\* apply_formula on http://x/data/b.xlsx has succeeded and the caller is
\* told of http://localhost:3001/files/processed_b.xlsx
C12_Witness ==
    /\ pc[1] = "returned"
    /\ req[1].url = U_x_b
    /\ req[1].operation = "apply_formula"
    /\ hist[1].outcome = "ok"
    /\ Contains(ret[1], <<"http:", SEP, SEP, "localhost:3001", SEP, "files", SEP,
                          "processed_", "b.xlsx">>)
    /\ Contains(ret[1], ImplOkMsg("apply_formula"))

\* the steps of a run in the order of the function's body, and where the
\* run stands before each
StepOrder ==
    <<"generate_temp_path", "download", "stage", "normalize", "dispatch",
      "upload", "cleanup", "respond">>

PcBefore ==
    <<"start", "download", "stage", "normalize", "dispatch", "upload",
      "cleanup", "respond">>

Terminal == {"returned", "failed"}

\* the steps attempted so far are the first ones of StepOrder, each once; a
\* run that returned attempted all of them, a run that failed stopped at
\* the step that raised; a run has returned a string or raised an error
\* only when it has ended, never both; a run that has not ended has
\* raised nothing and stands before the step that follows the ones attempted
StepsInOrder(r) ==
    LET done == hist[r].steps
        n == Len(done)
    IN  /\ n <= Len(StepOrder)
        /\ done = SubSeq(StepOrder, 1, n)
        /\ \A s \in {"download", "stage", "dispatch", "upload"} :
              Cardinality({i \in 1..n : done[i] = s}) <= 1
        /\ pc[r] = "returned" =>
              /\ done = StepOrder
              /\ \A s \in {"download", "stage", "dispatch", "upload"} :
                    Cardinality({i \in 1..n : done[i] = s}) = 1
              /\ ret[r] # << >> /\ error[r] = NoError
              /\ hist[r].raised = NoError
        /\ pc[r] = "failed" =>
              /\ n >= 1 /\ done[n] # "respond"
              /\ hist[r].raised # NoError
              /\ error[r] # NoError /\ ret[r] = << >>
        /\ pc[r] \notin Terminal =>
              /\ n < Len(StepOrder) /\ pc[r] = PcBefore[n + 1]
              /\ hist[r].raised = NoError
              /\ ret[r] = << >> /\ error[r] = NoError

\* one step of the system: run r attempts nothing, or attempts the step that
\* follows the ones it has attempted, and this only when it has not ended and
\* none of its steps has raised; a run that has ended stays as it is
StepTaken(r) ==
    LET n == Len(hist[r].steps)
    IN  /\ \/ hist'[r].steps = hist[r].steps
           \/ /\ n < Len(StepOrder)
              /\ hist'[r].steps = Append(hist[r].steps, StepOrder[n + 1])
              /\ pc[r] \notin Terminal
              /\ hist[r].raised = NoError /\ error[r] = NoError
              /\ pc'[r] \in {"failed"} \cup
                             (IF n + 1 < Len(StepOrder) THEN {PcBefore[n + 2]}
                              ELSE {"returned"})
        /\ pc[r] \in Terminal =>
              /\ pc'[r] = pc[r] /\ hist'[r] = hist[r]
              /\ ret'[r] = ret[r] /\ error'[r] = error[r]

\* C13: in every run of process_excel_from_url the steps are attempted in
\* the order temp path, download, stage, normalize, dispatch, upload,
\* cleanup, respond, none twice and none after a later one; download,
\* stage, dispatch and upload are attempted at most once, and exactly once
\* in a run that returns; a step is attempted only when every earlier step
\* went through without raising; a run that has ended never moves again and
\* has either returned a string or raised an error, never both, and a run
\* that has not ended has done neither.
C13_StepsInOrderOnce ==
    /\ [](\A r \in Requests : pc[r] # "unused" => StepsInOrder(r))
    /\ [][\A r \in Requests : StepTaken(r)]_vars

\* a run that returned after all eight steps
C13_Witness ==
    /\ pc[1] = "returned"
    /\ hist[1].steps = StepOrder
    /\ ret[1] # << >>

====
